---- MODULE Spec2Model ----
(***************************************************************************)
(* OSDPretty (src/src/osdpretty.cpp): the on-screen-display popup widget   *)
(* of Clementine, as a state machine.  One action per handler or public    *)
(* operation; the toolkit primitives the handlers call (QDesktopWidget,    *)
(* QTimer, qBound, QRect, QSize::scale) are operators that compute what    *)
(* the toolkit computes.                                                   *)
(***************************************************************************)
EXTENDS Integers, Sequences, FiniteSets, TLC

VARIABLES
  desktop,              \* the connected screens (QApplication::desktop())
  primaryScreen,        \* the index of the platform's primary screen
  mode,                 \* mode_
  cursor,               \* the widget's cursor (setCursor)
  foreground_color,     \* foreground_color_
  background_color,     \* background_color_
  background_opacity,   \* background_opacity_, in hundredths
  popup_display,        \* popup_display_
  popup_pos,            \* popup_pos_
  label_color,          \* WindowText of the palette of ui_.summary / ui_.message
  interval,             \* timeout_->interval(), msec
  timer_active,         \* timeout_->isActive()
  timer_remaining,      \* msec until timeout_ fires
  visible,              \* isVisible()
  window_opacity,       \* windowOpacity(), in hundredths
  pos,                  \* pos()
  size,                 \* size(): width(), height()
  size_hint,            \* sizeHint() of the current contents
  icon_visible,         \* ui_.icon is not hidden (!ui_.icon->isHidden())
  icon_size,            \* size of the pixmap of ui_.icon
  original_window_pos,  \* original_window_pos_
  drag_start_pos,       \* drag_start_pos_
  screen,               \* the index Reposition() last passed to availableGeometry
  update_requested      \* the last operation called update()

vars == << desktop, primaryScreen, mode, cursor, foreground_color,
           background_color, background_opacity, popup_display, popup_pos, label_color, interval,
           timer_active, timer_remaining, visible, window_opacity, pos, size,
           size_hint, icon_visible, icon_size, original_window_pos,
           drag_start_pos, screen, update_requested >>

(***************************************************************************)
(* Program constants                                                       *)
(***************************************************************************)
kMaxIconSize == 100
\* qRgb(r, g, b): 0xff000000 | r << 16 | g << 8 | b, as a 32-bit int.
qRgb(r, g, b) == ((r * 256 + g) * 256 + b) - 16777216
kPresetBlue == qRgb(102, 150, 227)
kPresetOrange == qRgb(254, 156, 67)
kDefaultInterval == 5000
kDefaultOpacity == 85
kFadedOpacity == 25
kFullOpacity == 100
kDefaultDisplay == -1

(***************************************************************************)
(* Bounds of the model                                                     *)
(***************************************************************************)
ScreenW == 3          \* width of every screen
ScreenH == 2          \* height of every screen
MaxOffset == 1        \* stored popup_pos coordinates are -MaxOffset, 0, MaxOffset

(***************************************************************************)
(* Geometry primitives of the toolkit                                      *)
(***************************************************************************)
Min(a, b) == IF a < b THEN a ELSE b
Max(a, b) == IF a > b THEN a ELSE b

\* qBound(min, val, max) is qMax(min, qMin(max, val)).
qBound(lo, val, hi) == Max(lo, Min(hi, val))

QPoint(px, py) == [x |-> px, y |-> py]

\* QRect(left, top, width, height): right() is left + width - 1.
QRect(l, t, w, h) == [left |-> l, top |-> t, right |-> l + w - 1, bottom |-> t + h - 1]

\* A screen: its full geometry and the part not taken by panels.
Screen(geom, avail) == [geometry |-> geom, available |-> avail]
Plain(l, t) == Screen(QRect(l, t, ScreenW, ScreenH), QRect(l, t, ScreenW, ScreenH))

\* The screen layouts: screen i of the toolkit is element i + 1.
Layouts ==
  { << Plain(0, 0) >>,
    << Plain(0, 0), Plain(ScreenW, 0) >>,
    << Screen(QRect(0, 0, ScreenW + 1, ScreenH + 1), QRect(1, 1, ScreenW, ScreenH)) >>,
    << Plain(0, 0), Plain(-ScreenW, 0) >> }

screenCount == Len(desktop)

\* QDesktopWidget::availableGeometry(int): an index that names no screen,
\* -1 included, gives the primary screen, which is any one of the screens.
availableGeometry(s) ==
  IF s < 0 \/ s >= screenCount
    THEN desktop[primaryScreen + 1].available
    ELSE desktop[s + 1].available

\* Distance from a point to a rectangle, 0 inside it.
pointToRect(p, r) ==
  (IF p.x < r.left THEN r.left - p.x ELSE IF p.x > r.right THEN p.x - r.right ELSE 0)
  + (IF p.y < r.top THEN r.top - p.y ELSE IF p.y > r.bottom THEN p.y - r.bottom ELSE 0)

\* QDesktopWidget::screenNumber(QPoint): the first of the screens closest to
\* the point (the screen holding it, when one does).
screenNumber(p) ==
  LET d(i) == pointToRect(p, desktop[i + 1].geometry)
  IN CHOOSE i \in 0..(screenCount - 1) :
       \A j \in 0..(screenCount - 1) : d(i) < d(j) \/ (d(i) = d(j) /\ i <= j)

\* QDesktopWidget::availableGeometry(QPoint)
availableGeometryAt(p) == availableGeometry(screenNumber(p))

\* QColor(QRgb) keeps the red, green and blue bytes and drops the alpha byte.
ToColor(rgb) == rgb % 16777216

\* Mutant of ScaledSize: Qt::IgnoreAspectRatio, the image fills the icon box.
ScaledSize_IgnoreAspect(img) == [w |-> kMaxIconSize, h |-> kMaxIconSize]

\* The size QImage::scaled(kMaxIconSize, kMaxIconSize, Qt::KeepAspectRatio)
\* asks for: QSize::scale in integer arithmetic.  A dimension of it is zero
\* when the image is flatter than 1 to kMaxIconSize.
ScaledSize(img) ==
  LET rw == (kMaxIconSize * img.w) \div img.h
  IN IF rw <= kMaxIconSize
       THEN [w |-> rw, h |-> kMaxIconSize]
       ELSE [w |-> kMaxIconSize, h |-> (kMaxIconSize * img.h) \div img.w]

(***************************************************************************)
(* Inputs                                                                  *)
(***************************************************************************)
Modes == {"Popup", "Draggable"}
NullImage == [w |-> 0, h |-> 0]
\* The sizes of the image QImage::scaled can return for img.  When a
\* dimension of the size asked for is zero, what it returns is the toolkit
\* version's: a null image, or the image with that dimension at one pixel.
scaled_image(img) ==
  LET sz == ScaledSize(img)
  IN IF sz.w >= 1 /\ sz.h >= 1
       THEN {sz}
       ELSE {NullImage, [w |-> Max(sz.w, 1), h |-> Max(sz.h, 1)]}
\* No image; one wider than the icon box, one smaller than it, and one so flat
\* that its proportional height is below a pixel.
Images ==
  {NullImage, [w |-> 200, h |-> 100], [w |-> 30, h |-> 60], [w |-> 300, h |-> 1]}
Sizes == {[w |-> 1, h |-> 1], [w |-> 2, h |-> 1]}
\* What a message is to the widget: its image, and the size hint its texts
\* and image give the layout.
ContentsOver(images, sizes) == [image : images, hint : sizes]
Rgbs == {0, kPresetBlue, kPresetOrange}
Opacities == {kDefaultOpacity, kDefaultOpacity \div 2}
Durations == {kDefaultInterval, kDefaultInterval \div 2}
Displays == -2..2
\* Stored offsets: before, at and past the origin of the screen, on both axes.
Offsets == {QPoint(d, d) : d \in {-MaxOffset, 0, MaxOffset}}
\* The persisted settings Load() can find in the store.  A missing key reads
\* as its default.
SettingsOver(fgs, bgs, opacities, displays, offsets) ==
  [foreground_color : fgs,
   background_color : bgs,
   background_opacity : opacities,
   popup_display : displays,
   popup_pos : offsets]
\* Every point of the desktop.
DesktopPoints ==
  UNION { {QPoint(px, py) : px \in desktop[i].geometry.left..desktop[i].geometry.right,
                            py \in desktop[i].geometry.top..desktop[i].geometry.bottom}
          : i \in 1..Len(desktop) }
\* The points of the widget: where a press on it can be.  A hidden widget
\* is nowhere on the desktop.
WidgetPoints ==
  IF visible
    THEN {QPoint(px, py) : px \in pos.x..(pos.x + size.w - 1),
                           py \in pos.y..(pos.y + size.h - 1)}
    ELSE {}
\* Where the pointer can be when a press reaches the shown widget: on the
\* widget, or, a button being held and the toolkit's mouse grab sending the
\* widget every event of the pointer, anywhere on the desktop.
PressPoints == IF visible THEN WidgetPoints \cup DesktopPoints ELSE {}

(***************************************************************************)
(* OSDPretty                                                               *)
(***************************************************************************)
CursorOf(m) == IF m = "Popup" THEN "ArrowCursor" ELSE "OpenHandCursor"

\* int screen = popup_display_ >= desktop->screenCount() ? -1 : popup_display_;
ResolveScreen == IF popup_display >= screenCount THEN -1 ELSE popup_display

\* The bounds of the two qBound calls of Reposition(), for a widget of size sz.
RepositionBounds(sz) ==
  LET geometry == availableGeometry(ResolveScreen)
  IN [x |-> [lo |-> 0, hi |-> geometry.right - sz.w],
      y |-> [lo |-> 0, hi |-> geometry.bottom - sz.h]]

\* The position Reposition() moves a widget of size sz to.
RepositionTarget(sz) ==
  LET geometry == availableGeometry(ResolveScreen)
      x == popup_pos.x + geometry.left
      y == popup_pos.y + geometry.top
  IN QPoint(qBound(0, x, geometry.right - sz.w),
            qBound(0, y, geometry.bottom - sz.h))

\* Reposition(): resize(sizeHint()), then move.
Reposition ==
  /\ size' = size_hint'
  /\ screen' = ResolveScreen
  /\ pos' = RepositionTarget(size_hint')

\* Mutant of TimerStart: a countdown in progress is left to run on.
TimerStart_KeepsCountdown ==
  /\ timer_active' = TRUE
  /\ timer_remaining' = IF timer_active THEN timer_remaining ELSE interval

\* QTimer::start(): cancels a pending countdown and schedules a full one.
TimerStart ==
  /\ timer_active' = TRUE
  /\ timer_remaining' = interval

\* Load(), given what the settings store holds.
Load(s) ==
  /\ foreground_color' = ToColor(s.foreground_color)
  /\ background_color' = ToColor(s.background_color)
  /\ background_opacity' = s.background_opacity
  /\ popup_display' = s.popup_display
  /\ popup_pos' = s.popup_pos
  /\ label_color' = ToColor(s.foreground_color)

\* The size of a top-level widget that was never resized: the constructor
\* does not call resize(), Reposition() does.
kDefaultWidgetSize == [w |-> 640, h |-> 480]
\* The sizes ui_.setupUi() can leave the widget: the size of the form, which
\* is not part of this file, where the form gives one (a small form here),
\* and the toolkit's default where it gives none.
UiSizes == {kDefaultWidgetSize, [w |-> 100, h |-> 30]}

\* The state the constructor leaves, Load() included.  The size is the one
\* setupUi() left.  The icon label is a child that nothing has hidden yet, and
\* it has no pixmap.
InitOver(desktops, settings, sizes) ==
  /\ \E d \in desktops : desktop = d.screens /\ primaryScreen = d.primary
  /\ mode = "Popup"
  /\ cursor = CursorOf("Popup")
  /\ \E s \in settings :
       /\ foreground_color = ToColor(s.foreground_color)
       /\ background_color = ToColor(s.background_color)
       /\ background_opacity = s.background_opacity
       /\ popup_display = s.popup_display
       /\ popup_pos = s.popup_pos
       /\ label_color = ToColor(s.foreground_color)
  /\ interval = kDefaultInterval
  /\ timer_active = FALSE
  /\ timer_remaining = 0
  /\ visible = FALSE
  /\ window_opacity = kFullOpacity
  /\ pos = QPoint(0, 0)
  /\ size_hint \in sizes
  /\ size \in UiSizes
  /\ icon_visible = TRUE
  /\ icon_size = NullImage
  /\ original_window_pos = QPoint(0, 0)
  /\ drag_start_pos = QPoint(0, 0)
  /\ screen = -1
  /\ update_requested = FALSE

\* Mutant of ReloadSettings: the visible widget is also moved to the reloaded
\* placement.
ReloadSettings_Repositions(s) ==
  /\ Load(s)
  /\ update_requested' = visible
  /\ size_hint' = size_hint
  /\ IF visible THEN Reposition ELSE UNCHANGED << size, screen, pos >>
  /\ UNCHANGED << desktop, primaryScreen,
                  mode, cursor, interval, timer_active, timer_remaining,
                  visible, window_opacity, icon_visible, icon_size,
                  original_window_pos, drag_start_pos >>

ReloadSettings(s) ==
  /\ Load(s)
  /\ update_requested' = visible
  /\ UNCHANGED << desktop, primaryScreen,
                  mode, cursor, interval, timer_active, timer_remaining,
                  visible, window_opacity, pos, size, size_hint, icon_visible,
                  icon_size, original_window_pos, drag_start_pos, screen >>

\* Mutant of SetMode: a mode change also restores the window opacity.
SetMode_ResetsOpacity(m) ==
  /\ mode' = m
  /\ cursor' = CursorOf(m)
  /\ window_opacity' = kFullOpacity
  /\ update_requested' = FALSE
  /\ UNCHANGED << desktop, primaryScreen,
                  foreground_color, background_color, background_opacity,
                  popup_display, popup_pos, label_color, interval, timer_active,
                  timer_remaining, visible, pos, size, size_hint, icon_visible,
                  icon_size, original_window_pos, drag_start_pos, screen >>

SetMode(m) ==
  /\ mode' = m
  /\ cursor' = CursorOf(m)
  /\ update_requested' = FALSE
  /\ UNCHANGED << desktop, primaryScreen,
                  foreground_color, background_color, background_opacity,
                  popup_display, popup_pos, label_color, interval, timer_active,
                  timer_remaining, visible, window_opacity, pos, size, size_hint,
                  icon_visible, icon_size, original_window_pos, drag_start_pos,
                  screen >>

\* Mutant of SetMessage: the visible widget is repositioned in Popup mode only.
SetMessage_RepositionsInPopupOnly(c) ==
  /\ IF c.image /= NullImage
       THEN icon_size' \in scaled_image(c.image) /\ icon_visible' = TRUE
       ELSE icon_size' = icon_size /\ icon_visible' = FALSE
  /\ size_hint' = c.hint
  /\ IF visible /\ mode = "Popup"
       THEN Reposition /\ TimerStart
       ELSE UNCHANGED << size, screen, pos, timer_active, timer_remaining >>
  /\ update_requested' = FALSE
  /\ UNCHANGED << desktop, primaryScreen,
                  mode, cursor, foreground_color, background_color,
                  background_opacity, popup_display, popup_pos, label_color,
                  interval, visible, window_opacity, original_window_pos,
                  drag_start_pos >>

SetMessage(c) ==
  /\ IF c.image /= NullImage
       THEN icon_size' \in scaled_image(c.image) /\ icon_visible' = TRUE
       ELSE icon_size' = icon_size /\ icon_visible' = FALSE
  /\ size_hint' = c.hint
  /\ IF visible THEN Reposition ELSE UNCHANGED << size, screen, pos >>
  /\ IF visible /\ mode = "Popup"
       THEN TimerStart
       ELSE UNCHANGED << timer_active, timer_remaining >>
  /\ update_requested' = FALSE
  /\ UNCHANGED << desktop, primaryScreen,
                  mode, cursor, foreground_color, background_color,
                  background_opacity, popup_display, popup_pos, label_color,
                  interval, visible, window_opacity, original_window_pos,
                  drag_start_pos >>

\* Mutant of showEvent: the window opacity is left as the last hide left it.
showEvent_KeepsOpacity ==
  /\ ~visible
  /\ visible' = TRUE
  /\ size_hint' = size_hint
  /\ Reposition
  /\ IF mode = "Popup"
       THEN TimerStart
       ELSE UNCHANGED << timer_active, timer_remaining >>
  /\ update_requested' = FALSE
  /\ UNCHANGED << desktop, primaryScreen,
                  mode, cursor, foreground_color, background_color,
                  background_opacity, popup_display, popup_pos, label_color,
                  interval, window_opacity, icon_visible, icon_size,
                  original_window_pos, drag_start_pos >>

\* show() on the hidden widget: the toolkit makes it visible and delivers
\* showEvent.
showEvent ==
  /\ ~visible
  /\ visible' = TRUE
  /\ size_hint' = size_hint
  /\ Reposition
  /\ window_opacity' = kFullOpacity
  /\ IF mode = "Popup"
       THEN TimerStart
       ELSE UNCHANGED << timer_active, timer_remaining >>
  /\ update_requested' = FALSE
  /\ UNCHANGED << desktop, primaryScreen,
                  mode, cursor, foreground_color, background_color,
                  background_opacity, popup_display, popup_pos, label_color,
                  interval, icon_visible, icon_size, original_window_pos,
                  drag_start_pos >>

\* QWidget::hide(): the widget is hidden; nothing else of it changes.
hide == visible' = FALSE

\* hide() called by the host application.
Hide ==
  /\ visible
  /\ hide
  /\ update_requested' = FALSE
  /\ UNCHANGED << desktop, primaryScreen,
                  mode, cursor, foreground_color, background_color,
                  background_opacity, popup_display, popup_pos, label_color,
                  interval, timer_active, timer_remaining, window_opacity, pos,
                  size, size_hint, icon_visible, icon_size, original_window_pos,
                  drag_start_pos, screen >>

\* dt msec pass while timeout_ counts down.
Tick(dt) ==
  /\ timer_active
  /\ timer_remaining > 0
  /\ timer_remaining' = Max(0, timer_remaining - dt)
  /\ update_requested' = FALSE
  /\ UNCHANGED << desktop, primaryScreen,
                  mode, cursor, foreground_color, background_color,
                  background_opacity, popup_display, popup_pos, label_color,
                  interval, timer_active, visible, window_opacity, pos, size,
                  size_hint, icon_visible, icon_size, original_window_pos,
                  drag_start_pos, screen >>

\* Mutant of Timeout: the timer fires and the widget is not hidden.
Timeout_NoHide ==
  /\ timer_active
  /\ timer_remaining = 0
  /\ timer_active' = FALSE
  /\ update_requested' = FALSE
  /\ UNCHANGED << desktop, primaryScreen,
                  mode, cursor, foreground_color, background_color,
                  background_opacity, popup_display, popup_pos, label_color,
                  interval, timer_remaining, visible, window_opacity, pos, size,
                  size_hint, icon_visible, icon_size, original_window_pos,
                  drag_start_pos, screen >>

\* timeout_ fires: single shot, connected to hide().
Timeout ==
  /\ timer_active
  /\ timer_remaining = 0
  /\ timer_active' = FALSE
  /\ hide
  /\ update_requested' = FALSE
  /\ UNCHANGED << desktop, primaryScreen,
                  mode, cursor, foreground_color, background_color,
                  background_opacity, popup_display, popup_pos, label_color,
                  interval, timer_remaining, window_opacity, pos, size, size_hint,
                  icon_visible, icon_size, original_window_pos, drag_start_pos,
                  screen >>

enterEvent ==
  /\ visible
  /\ window_opacity' = IF mode = "Popup" THEN kFadedOpacity ELSE window_opacity
  /\ update_requested' = FALSE
  /\ UNCHANGED << desktop, primaryScreen,
                  mode, cursor, foreground_color, background_color,
                  background_opacity, popup_display, popup_pos, label_color,
                  interval, timer_active, timer_remaining, visible, pos, size,
                  size_hint, icon_visible, icon_size, original_window_pos,
                  drag_start_pos, screen >>

\* The handler has no test of visibility or mode: the leave event the toolkit
\* delivers to a widget hidden under the pointer restores the opacity too.
leaveEvent ==
  /\ window_opacity' = kFullOpacity
  /\ update_requested' = FALSE
  /\ UNCHANGED << desktop, primaryScreen,
                  mode, cursor, foreground_color, background_color,
                  background_opacity, popup_display, popup_pos, label_color,
                  interval, timer_active, timer_remaining, visible, pos, size,
                  size_hint, icon_visible, icon_size, original_window_pos,
                  drag_start_pos, screen >>

\* Mutant of mousePressEvent: the drag state is recorded in Popup mode too.
mousePressEvent_AlwaysRecords(p) ==
  /\ visible
  /\ IF mode = "Popup" THEN hide ELSE UNCHANGED visible
  /\ original_window_pos' = pos
  /\ drag_start_pos' = p
  /\ update_requested' = FALSE
  /\ UNCHANGED << desktop, primaryScreen,
                  mode, cursor, foreground_color, background_color,
                  background_opacity, popup_display, popup_pos, label_color,
                  interval, timer_active, timer_remaining, window_opacity, pos,
                  size, size_hint, icon_visible, icon_size, screen >>

\* A press delivered to the widget, the pointer at global position p.
mousePressEvent(p) ==
  /\ visible
  /\ IF mode = "Popup"
       THEN hide /\ UNCHANGED << original_window_pos, drag_start_pos >>
       ELSE /\ original_window_pos' = pos
            /\ drag_start_pos' = p
            /\ UNCHANGED visible
  /\ update_requested' = FALSE
  /\ UNCHANGED << desktop, primaryScreen,
                  mode, cursor, foreground_color, background_color,
                  background_opacity, popup_display, popup_pos, label_color,
                  interval, timer_active, timer_remaining, window_opacity, pos,
                  size, size_hint, icon_visible, icon_size, screen >>

\* The bounds of the two qBound calls of mouseMoveEvent, the pointer at p.
MoveBounds(p) ==
  LET geometry == availableGeometryAt(p)
  IN [x |-> [lo |-> geometry.left, hi |-> geometry.right - size.w],
      y |-> [lo |-> geometry.top, hi |-> geometry.bottom - size.h]]

\* Mutant of MoveTarget: clamps into the screen the drag started on.
MoveTarget_StartScreen(p) ==
  LET new_x == original_window_pos.x + (p.x - drag_start_pos.x)
      new_y == original_window_pos.y + (p.y - drag_start_pos.y)
      geometry == availableGeometryAt(drag_start_pos)
  IN QPoint(qBound(geometry.left, new_x, geometry.right - size.w),
            qBound(geometry.top, new_y, geometry.bottom - size.h))

\* Where mouseMoveEvent moves the widget, the pointer at global position p.
MoveTarget(p) ==
  LET new_x == original_window_pos.x + (p.x - drag_start_pos.x)
      new_y == original_window_pos.y + (p.y - drag_start_pos.y)
      geometry == availableGeometryAt(p)
  IN QPoint(qBound(geometry.left, new_x, geometry.right - size.w),
            qBound(geometry.top, new_y, geometry.bottom - size.h))

mouseMoveEvent(p) ==
  /\ visible
  /\ update_requested' = FALSE
  /\ UNCHANGED << desktop, primaryScreen,
                  mode, cursor, foreground_color, background_color,
                  background_opacity, popup_display, popup_pos, label_color,
                  interval, timer_active, timer_remaining, visible,
                  window_opacity, size, size_hint, icon_visible, icon_size,
                  original_window_pos, drag_start_pos, screen >>
  /\ pos' = IF mode = "Draggable" THEN MoveTarget(p) ELSE pos

\* current_display()
current_display == screenNumber(pos)

\* current_pos()
current_pos ==
  LET geometry == availableGeometry(current_display)
  IN QPoint(pos.x - geometry.left, pos.y - geometry.top)

set_background_color(color) ==
  /\ background_color' = ToColor(color)
  /\ update_requested' = visible
  /\ UNCHANGED << desktop, primaryScreen,
                  mode, cursor, foreground_color, background_opacity,
                  popup_display, popup_pos, label_color, interval, timer_active,
                  timer_remaining, visible, window_opacity, pos, size, size_hint,
                  icon_visible, icon_size, original_window_pos, drag_start_pos,
                  screen >>

\* Mutant of set_background_opacity: the isVisible() test is left out.
set_background_opacity_AlwaysUpdates(opacity) ==
  /\ background_opacity' = opacity
  /\ update_requested' = TRUE
  /\ UNCHANGED << desktop, primaryScreen,
                  mode, cursor, foreground_color, background_color,
                  popup_display, popup_pos, label_color, interval, timer_active,
                  timer_remaining, visible, window_opacity, pos, size, size_hint,
                  icon_visible, icon_size, original_window_pos, drag_start_pos,
                  screen >>

set_background_opacity(opacity) ==
  /\ background_opacity' = opacity
  /\ update_requested' = visible
  /\ UNCHANGED << desktop, primaryScreen,
                  mode, cursor, foreground_color, background_color,
                  popup_display, popup_pos, label_color, interval, timer_active,
                  timer_remaining, visible, window_opacity, pos, size, size_hint,
                  icon_visible, icon_size, original_window_pos, drag_start_pos,
                  screen >>

\* Sets the colour and the labels' palette; it does not call update().
set_foreground_color(color) ==
  /\ foreground_color' = ToColor(color)
  /\ label_color' = ToColor(color)
  /\ update_requested' = FALSE
  /\ UNCHANGED << desktop, primaryScreen,
                  mode, cursor, background_color, background_opacity,
                  popup_display, popup_pos, interval, timer_active,
                  timer_remaining, visible, window_opacity, pos, size, size_hint,
                  icon_visible, icon_size, original_window_pos, drag_start_pos,
                  screen >>

\* QTimer::setInterval(msec): stores the interval and, when the timer is
\* running, kills it and starts it again with the new interval.
setInterval(msec) ==
  /\ interval' = msec
  /\ timer_remaining' = IF timer_active THEN msec ELSE timer_remaining
  /\ UNCHANGED timer_active

\* Mutant of set_popup_duration: repaints like the appearance setters.
set_popup_duration_Repaints(msec) ==
  /\ setInterval(msec)
  /\ update_requested' = visible
  /\ UNCHANGED << desktop, primaryScreen,
                  mode, cursor, foreground_color, background_color,
                  background_opacity, popup_display, popup_pos, label_color,
                  visible, window_opacity, pos, size, size_hint, icon_visible,
                  icon_size, original_window_pos, drag_start_pos, screen >>

set_popup_duration(msec) ==
  /\ setInterval(msec)
  /\ update_requested' = FALSE
  /\ UNCHANGED << desktop, primaryScreen,
                  mode, cursor, foreground_color, background_color,
                  background_opacity, popup_display, popup_pos, label_color,
                  visible, window_opacity, pos, size, size_hint, icon_visible,
                  icon_size, original_window_pos, drag_start_pos, screen >>

\* One step of the widget, its inputs drawn from the given sets: a press
\* comes with the pointer on the widget or at one of presses, a move event with
\* the pointer at one of moves.
Step(settings, contents, ticks, durations, rgbs, opacities, presses, moves) ==
  \/ \E s \in settings : ReloadSettings(s)
  \/ \E m \in Modes : SetMode(m)
  \/ \E c \in contents : SetMessage(c)
  \/ showEvent
  \/ Hide
  \/ \E dt \in ticks : Tick(dt)
  \/ Timeout
  \/ enterEvent
  \/ leaveEvent
  \/ \E p \in PressPoints \cap (WidgetPoints \cup presses) : mousePressEvent(p)
  \/ \E p \in DesktopPoints \cap moves : mouseMoveEvent(p)
  \/ \E c \in rgbs : set_background_color(c)
  \/ \E o \in opacities : set_background_opacity(o)
  \/ \E c \in rgbs : set_foreground_color(c)
  \/ \E d \in durations : set_popup_duration(d)

(***************************************************************************)
(* Spec: the widget on one screen, with every appearance, duration and     *)
(* message input.                                                          *)
(***************************************************************************)
\* Every pointer position: a box that holds every screen of every layout.
AnyPoint == {QPoint(px, py) : px \in (-ScreenW)..(2 * ScreenW), py \in 0..ScreenH}
OneScreen == { << Plain(0, 0) >> }
\* The desktops of the given layouts, the first screen the primary one.
FirstPrimary(layouts) == {[screens |-> l, primary |-> 0] : l \in layouts}
Origin == {QPoint(0, 0)}
SmallSize == {[w |-> 1, h |-> 1]}
WidgetSettings ==
  SettingsOver({0, kPresetOrange}, {kPresetBlue, kPresetOrange}, Opacities,
               {kDefaultDisplay}, Origin)
Init == InitOver(FirstPrimary(OneScreen), WidgetSettings, SmallSize)
Next ==
  Step(WidgetSettings, ContentsOver(Images, SmallSize), {kDefaultInterval \div 2},
       Durations, Rgbs, Opacities, Origin, AnyPoint)
Spec == Init /\ [][Next]_vars

(***************************************************************************)
(* PlaceSpec: the widget on every screen layout, the primary screen the    *)
(* first or the second one, with every stored display index and offset;    *)
(* one colour, duration, size and pointer position.                        *)
(***************************************************************************)
OneRgb == {kPresetBlue}
OneOpacity == {kDefaultOpacity}
PlaceSettings == SettingsOver(OneRgb, OneRgb, OneOpacity, Displays, Offsets)
WideSize == {[w |-> 2, h |-> 1]}
\* Every layout with its first screen the primary one, and the row of two
\* screens with the second the primary one.
PlaceDesktops ==
  FirstPrimary(Layouts)
    \cup {[screens |-> << Plain(0, 0), Plain(ScreenW, 0) >>, primary |-> 1]}
PlaceInit == InitOver(PlaceDesktops, PlaceSettings, WideSize)
PlaceNext ==
  Step(PlaceSettings, ContentsOver({NullImage}, WideSize), {kDefaultInterval},
       {kDefaultInterval}, OneRgb, OneOpacity, Origin, Origin)
PlaceSpec == PlaceInit /\ [][PlaceNext]_vars

(***************************************************************************)
(* DragSpec: the widget on every screen layout, with every pointer         *)
(* position of a move and, for a press off the widget, the pointer in a    *)
(* corner of a screen, where the clamp has stopped the widget short of it; *)
(* the stored offset is the origin of the default or the second screen.    *)
(***************************************************************************)
CornerPoints == {QPoint(ScreenW - 1, 0), QPoint(2 * ScreenW - 1, ScreenH - 1)}
DragSettings == SettingsOver(OneRgb, OneRgb, OneOpacity, {kDefaultDisplay, 1}, Origin)
DragInit == InitOver(FirstPrimary(Layouts), DragSettings, Sizes)
DragNext ==
  Step(DragSettings, ContentsOver({NullImage}, Sizes), {kDefaultInterval},
       {kDefaultInterval}, OneRgb, OneOpacity, CornerPoints, AnyPoint)
DragSpec == DragInit /\ [][DragNext]_vars

(***************************************************************************)
(* LiveSpec: the widget on one screen with one colour and size and every    *)
(* image, and the event loop's fairness: time passes while the timer       *)
(* counts down, and an elapsed timer is delivered.                         *)
(***************************************************************************)
LiveSettings == SettingsOver(OneRgb, OneRgb, OneOpacity, {kDefaultDisplay}, Origin)
LiveTicks == {kDefaultInterval \div 2}
LiveInit == InitOver(FirstPrimary(OneScreen), LiveSettings, SmallSize)
LiveNext ==
  Step(LiveSettings, ContentsOver(Images, SmallSize), LiveTicks, Durations,
       OneRgb, OneOpacity, Origin, Origin)
LiveSpec ==
  /\ LiveInit
  /\ [][LiveNext]_vars
  /\ WF_vars(\E dt \in LiveTicks : Tick(dt))
  /\ WF_vars(Timeout)

(***************************************************************************)
(* Properties                                                              *)
(***************************************************************************)
AllContents == ContentsOver(Images, Sizes)

\* A step in which Reposition() runs: a show, or SetMessage on the visible
\* widget.
RepositionStep == showEvent \/ (visible /\ \E c \in AllContents : SetMessage(c))

RectWidth(r) == r.right - r.left + 1
RectHeight(r) == r.bottom - r.top + 1
FitsIn(sz, r) == sz.w <= RectWidth(r) /\ sz.h <= RectHeight(r)
WithinGeometry(p, sz, r) ==
  /\ r.left <= p.x /\ p.x <= r.right - sz.w
  /\ r.top <= p.y /\ p.y <= r.bottom - sz.h

\* C1: after Reposition() the widget, when no larger than the available
\* geometry of the screen Reposition resolved to, lies within that geometry:
\* left <= x <= right - width and top <= y <= bottom - height.
C1_RepositionWithinGeometry ==
  [][RepositionStep =>
       (FitsIn(size', availableGeometry(screen'))
          => WithinGeometry(pos', size', availableGeometry(screen')))]_vars

\* C2: for every popup_display outside [0, screenCount), negative values
\* included, Reposition() resolves the screen to -1, so no out-of-range index
\* other than the sentinel reaches the geometry lookup.
C2_OutOfRangeResolvesToDefault ==
  [][RepositionStep =>
       (popup_display \notin 0..(screenCount - 1) => screen' = -1)]_vars

\* C3: SetMessage on the visible widget in Popup mode cancels the countdown in
\* progress and schedules a full one: the timer is running with the whole
\* interval ahead of it, whatever had elapsed.
C3_SetMessageRestartsCountdown ==
  [][(visible /\ mode = "Popup" /\ \E c \in AllContents : SetMessage(c))
       => (visible' /\ timer_active' /\ timer_remaining' = interval')]_vars

\* C3 witness: SetMessage has shown the icon on the visible Popup widget and a
\* full countdown is pending.
C3_Witness ==
  /\ visible /\ mode = "Popup" /\ icon_visible /\ icon_size /= NullImage
  /\ timer_active /\ timer_remaining = interval

\* The events the claim names as restarting or ending the countdown: a press,
\* SetMessage, a show, a mode change.
Interaction ==
  \/ \E p \in PressPoints : mousePressEvent(p)
  \/ \E c \in AllContents : SetMessage(c)
  \/ showEvent
  \/ \E m \in Modes : SetMode(m)

\* The widget is visible in Popup mode with its countdown running, as a show
\* in Popup mode leaves it.
Armed == visible /\ mode = "Popup" /\ timer_active

\* C4 as stated: once presses, SetMessage calls, shows and mode changes have
\* ceased, a widget shown in Popup mode is eventually hidden by its timer.
C4_HiddenUnlessInteraction ==
  <>[][~Interaction]_vars => [](Armed => <>(~visible))

\* C4, amended: once presses, SetMessage calls, shows, mode changes and
\* set_popup_duration calls have ceased, a widget shown in Popup mode is
\* eventually hidden by its timer; a hidden widget can be shown.
C4_HiddenUnlessRestarted ==
  /\ <>[][~(Interaction \/ \E d \in Durations : set_popup_duration(d))]_vars
       => [](Armed => <>(~visible))
  /\ [](~visible => ENABLED showEvent)

\* C4 witness: the widget, shown in Popup mode and faded under the pointer,
\* is hidden and its timer has fired: the timer is idle, its countdown elapsed.
C4_Witness ==
  /\ ~visible /\ mode = "Popup" /\ window_opacity = kFadedOpacity
  /\ ~timer_active /\ timer_remaining = 0

\* C5: in Popup mode a press, wherever the pointer is, hides the widget in
\* the same step and records no drag state.
C5_PopupPressHides ==
  [][mode = "Popup" =>
       \A p \in PressPoints :
         mousePressEvent(p)
           => (~visible' /\ UNCHANGED << original_window_pos, drag_start_pos >>)]_vars

\* C5 witness: the two-point-wide widget was pressed away in Popup mode while
\* faded under the pointer, its countdown still pending.
C5_Witness ==
  /\ ~visible /\ mode = "Popup" /\ window_opacity = kFadedOpacity
  /\ timer_active /\ size.w = 2

Clamp(lo, v, hi) == IF v < lo THEN lo ELSE IF v > hi THEN hi ELSE v

\* Where a drag that began with the pointer at p0 and the widget at w0 puts
\* a widget of size sz when the pointer is at p.
DragTarget(w0, p0, p, sz) ==
  LET g == desktop[screenNumber(p) + 1].available
  IN QPoint(Clamp(g.left, w0.x + (p.x - p0.x), g.right - sz.w),
            Clamp(g.top, w0.y + (p.y - p0.y), g.bottom - sz.h))

\* C6: in Draggable mode a press records the widget position W0 and the
\* pointer position P0, only such a press changes that record (a move does
\* not), and for every pointer position P the place a move event puts the
\* widget is W0 + (P - P0), clamped into the available geometry of the screen
\* under P.
C6_DragFollowsPointer ==
  /\ []((visible /\ mode = "Draggable") =>
          \A p \in DesktopPoints :
            MoveTarget(p) = DragTarget(original_window_pos, drag_start_pos, p, size))
  /\ [][/\ mode = "Draggable" =>
             \A p \in PressPoints :
               mousePressEvent(p)
                 => (original_window_pos' = pos /\ drag_start_pos' = p /\ pos' = pos)
        /\ (original_window_pos' /= original_window_pos \/ drag_start_pos' /= drag_start_pos)
             => (mode = "Draggable" /\ \E p \in PressPoints : mousePressEvent(p))]_vars

\* C6 witness: the widget, placed on the default screen by its settings, has
\* been dragged from there onto the second screen.
C6_Witness ==
  /\ visible /\ mode = "Draggable" /\ screenCount = 2
  /\ popup_display = kDefaultDisplay /\ screen = kDefaultDisplay
  /\ screenNumber(original_window_pos) = 0
  /\ screenNumber(pos) = 1
  /\ \E p \in DesktopPoints :
       /\ screenNumber(p) = 1
       /\ pos = DragTarget(original_window_pos, drag_start_pos, p, size)

\* C7: SetMode changes the mode and the cursor and nothing else: colours,
\* opacity, stored placement, timer, position, visibility and window opacity
\* are what they were.
C7_SetModeFrame ==
  [][\A m \in Modes :
       SetMode(m) =>
         /\ mode' = m
         /\ cursor' = (IF m = "Popup" THEN "ArrowCursor" ELSE "OpenHandCursor")
         /\ UNCHANGED << foreground_color, background_color, background_opacity,
                         popup_display, popup_pos, label_color, interval,
                         timer_active, timer_remaining, visible, window_opacity,
                         pos, size, size_hint, icon_visible, icon_size,
                         original_window_pos, drag_start_pos >>]_vars

\* C7 witness: the widget, faded in Popup mode with its colours and opacity
\* set away from their defaults and its countdown running, was switched to
\* Draggable mode and kept all of that.
C7_Witness ==
  /\ mode = "Draggable" /\ cursor = "OpenHandCursor"
  /\ visible /\ window_opacity = kFadedOpacity
  /\ timer_active /\ timer_remaining < interval
  /\ background_color = ToColor(kPresetOrange)
  /\ foreground_color = ToColor(kPresetBlue)
  /\ background_opacity /= kDefaultOpacity

BackgroundSetter ==
  \/ \E c \in Rgbs : set_background_color(c)
  \/ \E o \in Opacities : set_background_opacity(o)

ForegroundSetter == \E c \in Rgbs : set_foreground_color(c)

\* C8 as stated: each of set_background_color, set_background_opacity and
\* set_foreground_color requests a repaint exactly when the widget is
\* visible.
C8_SettersRepaintWhenVisible ==
  [][(BackgroundSetter \/ ForegroundSetter) => update_requested' = visible]_vars

\* C8, amended: set_background_color and set_background_opacity request a
\* repaint exactly when the widget is visible; set_foreground_color requests
\* none, visible or hidden: it gives the labels the colour.
C8_BackgroundSettersRepaint ==
  [][/\ BackgroundSetter => update_requested' = visible
     /\ \A c \in Rgbs :
          set_foreground_color(c)
            => (~update_requested' /\ label_color' = ToColor(c)
                /\ foreground_color' = ToColor(c))]_vars

\* C8 witness: on the visible widget the labels were given a colour only the
\* foreground setter supplies, and the last operation requested a repaint.
C8_Witness ==
  /\ visible /\ update_requested
  /\ label_color = ToColor(kPresetBlue)
  /\ background_opacity /= kDefaultOpacity

\* C9 as stated: set_popup_duration stores the duration for later timer
\* starts and leaves a countdown in progress as it is; it neither hides,
\* shows nor repaints.
C9_DurationLeavesCountdown ==
  [][\A d \in Durations :
       set_popup_duration(d) =>
         /\ interval' = d
         /\ UNCHANGED << timer_active, timer_remaining, visible >>
         /\ ~update_requested']_vars

\* C9, amended: set_popup_duration stores the duration; an idle timer stays
\* idle, and a countdown in progress is restarted from the call with the new
\* duration ahead of it; it neither hides, shows nor repaints.
C9_DurationRestartsCountdown ==
  [][\A d \in Durations :
       set_popup_duration(d) =>
         /\ interval' = d
         /\ UNCHANGED << timer_active, visible >>
         /\ timer_remaining' = (IF timer_active THEN d ELSE timer_remaining)
         /\ ~update_requested']_vars

\* C9 witness: a countdown runs on the visible widget with a duration other
\* than the constructor's, the whole of it ahead.
C9_Witness ==
  /\ visible /\ timer_active
  /\ interval /= kDefaultInterval /\ timer_remaining = interval

\* The stored offset needs no clamping on the screen d: the widget placed at
\* it lies within that screen's available geometry.
NoClampNeeded(d) ==
  LET g == desktop[d + 1].available
  IN WithinGeometry(QPoint(popup_pos.x + g.left, popup_pos.y + g.top), size_hint', g)

DistinctOrigins ==
  \A i, j \in 1..Len(desktop) :
    i /= j => << desktop[i].available.left, desktop[i].available.top >>
                /= << desktop[j].available.left, desktop[j].available.top >>

\* C10: after Reposition() with popup_display a screen index and popup_pos an
\* offset that needs no clamping there, current_display() is popup_display
\* and current_pos() is popup_pos.
C10_PlacementRoundTrip ==
  [][RepositionStep =>
       ((popup_display \in 0..(screenCount - 1) /\ NoClampNeeded(popup_display)
           /\ DistinctOrigins)
          => (current_display' = popup_display /\ current_pos' = popup_pos))]_vars

\* C11: ReloadSettings leaves position, size, timer, visibility and mode as
\* they were; it replaces foreground_color, background_color,
\* background_opacity, popup_display and popup_pos by the persisted values and
\* requests a repaint exactly when the widget is visible.  The reloaded
\* placement reaches the position at the next show or visible SetMessage: but
\* for a drag, the position changes in those steps only, to the place the
\* popup_display and popup_pos of that moment give.
C11_ReloadSettingsFrame ==
  [][/\ \A fg \in OneRgb, bg \in OneRgb, op \in OneOpacity :
          \* the persisted values: the placement is the one found stored after
          \* the step
          LET s == [foreground_color |-> fg, background_color |-> bg,
                    background_opacity |-> op, popup_display |-> popup_display',
                    popup_pos |-> popup_pos']
          IN (s \in PlaceSettings /\ ReloadSettings(s)) =>
               /\ UNCHANGED << pos, size, timer_active, timer_remaining, interval,
                               visible, mode >>
               /\ foreground_color' = fg % 16777216
               /\ background_color' = bg % 16777216
               /\ background_opacity' = op
               /\ update_requested' = visible
     /\ pos' /= pos =>
          \/ mode = "Draggable" /\ \E p \in DesktopPoints : mouseMoveEvent(p)
          \/ /\ RepositionStep
             /\ LET g == availableGeometry(IF popup_display >= screenCount
                                            THEN -1 ELSE popup_display)
                IN pos' = QPoint(Max(0, Min(g.right - size'.w, popup_pos.x + g.left)),
                                 Max(0, Min(g.bottom - size'.h, popup_pos.y + g.top)))]_vars

\* C11 witness: the visible widget has been asked to repaint and still stands
\* where the placement before the reload put it: the stored display resolves
\* to another screen than the one it was placed on, and to another position.
C11_Witness ==
  /\ visible /\ update_requested
  /\ screen /= ResolveScreen
  /\ pos /= RepositionTarget(size)

Abs(a) == IF a < 0 THEN -a ELSE a

\* The size (w, h) is the image img brought into the icon box at its aspect
\* ratio: the larger dimension of img at kMaxIconSize, the other at its
\* proportional share, each within the one pixel that integer sizes allow.
KeepsAspectRatio(sz, img) ==
  LET larger == Max(img.w, img.h)
  IN /\ Abs(sz.w * larger - kMaxIconSize * img.w) < larger
     /\ Abs(sz.h * larger - kMaxIconSize * img.h) < larger

\* C12: after every SetMessage call, in either mode, visible or hidden, the
\* icon is shown if and only if the image was not null; when shown, neither
\* its width nor its height is greater than 100 and it has the aspect ratio
\* of the image.
C12_IconFollowsImage ==
  [][\A c \in AllContents :
       SetMessage(c) =>
         /\ icon_visible' = (c.image.w /= 0 /\ c.image.h /= 0)
         /\ icon_visible' =>
              /\ icon_size'.w <= 100 /\ icon_size'.h <= 100
              /\ KeepsAspectRatio(icon_size', c.image)]_vars

\* The image is no flatter than 1 to kMaxIconSize: at its aspect ratio in the
\* icon box both its dimensions are at least one pixel.
Proportionate(img) ==
  /\ kMaxIconSize * img.w >= img.h
  /\ kMaxIconSize * img.h >= img.w

\* C12, as the code has it: after every SetMessage call, in either mode,
\* visible or hidden, the icon is shown if and only if the image was not
\* null, and when shown neither its width nor its height is greater than 100.
\* For an image no flatter than 1 to 100 the icon is not empty and has the
\* aspect ratio of the image; for a flatter image the icon is what the
\* toolkit's scaling returns: empty, or the image's short side at one pixel.
C12_IconFollowsProportionateImage ==
  [][\A c \in AllContents :
       SetMessage(c) =>
         /\ icon_visible' = (c.image.w /= 0 /\ c.image.h /= 0)
         /\ icon_visible' =>
              /\ icon_size'.w <= 100 /\ icon_size'.h <= 100
              /\ IF Proportionate(c.image)
                   THEN /\ icon_size' /= NullImage
                        /\ KeepsAspectRatio(icon_size', c.image)
                   ELSE \/ icon_size' = NullImage
                        \/ /\ Min(icon_size'.w, icon_size'.h) = 1
                           /\ KeepsAspectRatio(icon_size', c.image)]_vars

\* C12 witness: the hidden widget in Draggable mode shows the icon of the
\* image twice as wide as high, scaled into the icon box.
C12_Witness ==
  /\ ~visible /\ mode = "Draggable"
  /\ icon_visible /\ icon_size = [w |-> 100, h |-> 50]

\* C13: a move event in Draggable mode with no press taken in that mode since
\* the widget entered it is no drag and leaves the position unchanged; the
\* drag record of an earlier gesture is not applied.  Stated of the move that
\* follows the entry: when the visible widget goes from Popup to Draggable
\* mode, the place a move event puts it, for every pointer position, is the
\* place it is at.
C13_NoDragWithoutPress ==
  [][(visible /\ mode = "Popup" /\ SetMode("Draggable"))
       => \A p \in DesktopPoints : MoveTarget(p)' = pos']_vars

\* C14: the faded state exists only in Popup mode: in every reachable state
\* the window opacity is 0.25 only if the mode is Popup, and it is 0.25 or
\* 1.0; an enter event in Draggable mode leaves the opacity unchanged and a
\* leave event sets it to 1.0 in either mode.
C14_FadedOnlyInPopup ==
  /\ [](window_opacity = kFadedOpacity => mode = "Popup")
  /\ [](window_opacity \in {kFadedOpacity, kFullOpacity})
  /\ [][(mode = "Draggable" /\ enterEvent) => UNCHANGED window_opacity]_vars
  /\ [][leaveEvent => window_opacity' = kFullOpacity]_vars

\* C15: every show event, one that follows a faded hide included, places the
\* widget from popup_display and popup_pos and sets the window opacity to 1.0;
\* in Popup mode it starts the timer with the full interval ahead, in
\* Draggable mode it leaves the timer as it was and starts none.
C15_ShowPlacesAndArms ==
  [][showEvent =>
       /\ visible'
       /\ size' = size_hint /\ screen' = ResolveScreen
       /\ pos' = RepositionTarget(size_hint)
       /\ window_opacity' = kFullOpacity
       /\ (mode = "Popup") => (timer_active' /\ timer_remaining' = interval)
       /\ (mode = "Draggable") => UNCHANGED << timer_active, timer_remaining >>]_vars

\* C15 witness: the widget was shown in Draggable mode on the second screen
\* and no timer runs.
C15_Witness ==
  /\ visible /\ mode = "Draggable" /\ ~timer_active
  /\ window_opacity = kFullOpacity
  /\ screenCount = 2 /\ screen = 1 /\ pos = RepositionTarget(size)

\* C16: while the mode is Draggable the timer does not hide the widget: no
\* timer fire, a countdown started in Popup mode and pending at
\* SetMode(Draggable) included, hides the visible widget in Draggable mode.
C16_NoAutoHideWhileDraggable ==
  [][(mode = "Draggable" /\ visible /\ Timeout) => visible']_vars

\* C17: a pending countdown implies the widget is visible: once a press in
\* Popup mode or the timer itself has hidden the widget, no countdown remains
\* pending that could fire later.
C17_PendingImpliesVisible ==
  [][((\E p \in PressPoints : mousePressEvent(p)) \/ Timeout)
       => (timer_active' => visible')]_vars

Ordered(b) == b.x.lo <= b.x.hi /\ b.y.lo <= b.y.hi

\* C18: every clamp of Reposition() and of mouseMoveEvent has a lower bound
\* not greater than its upper bound, on every screen layout, whenever the
\* available geometry the clamp is into is at least as large as the widget.
C18_ClampBoundsOrdered ==
  /\ [][RepositionStep =>
          (FitsIn(size', availableGeometry(screen'))
             => Ordered(RepositionBounds(size')))]_vars
  /\ [](visible /\ mode = "Draggable" =>
          \A p \in DesktopPoints :
            FitsIn(size, availableGeometryAt(p)) => Ordered(MoveBounds(p)))

\* The widget stands where a drag put it: its placement settings resolve to
\* the screen it was last placed on, and it is not at the place they give.
Dragged == screen = ResolveScreen /\ pos /= RepositionTarget(size)

\* A step of the visible widget in Draggable mode that changes its position
\* and nothing else of it: what a move event does there.
DragStep ==
  /\ visible /\ mode = "Draggable"
  /\ UNCHANGED << desktop, primaryScreen,
                  mode, cursor, foreground_color, background_color,
                  background_opacity, popup_display, popup_pos, label_color,
                  interval, timer_active, timer_remaining, visible,
                  window_opacity, size, size_hint, icon_visible, icon_size,
                  original_window_pos, drag_start_pos, screen >>

\* C19 as stated: a position reached by dragging in Draggable mode is kept
\* until the next drag or show: SetMessage on the visible widget in
\* Draggable mode does not move it from the dragged position, and SetMessage
\* on the hidden widget changes neither position nor timer state.
C19_DraggedPositionKept ==
  [][\A c \in AllContents :
       SetMessage(c) =>
         /\ (visible /\ mode = "Draggable" /\ Dragged) => pos' = pos
         /\ ~visible => UNCHANGED << pos, timer_active, timer_remaining >>]_vars

\* C19, amended: a position reached by dragging is kept until the next move
\* event in Draggable mode, show, or SetMessage on the visible widget (the
\* position changes in such steps only):
\* SetMessage on the visible widget, in Draggable mode too, moves it to the
\* place its placement settings give; SetMessage on the hidden widget changes
\* neither position nor timer state.
C19_SetMessageRepositions ==
  [][/\ \A c \in AllContents :
          SetMessage(c) =>
            /\ visible => (size' = c.hint /\ pos' = RepositionTarget(c.hint))
            /\ ~visible => UNCHANGED << pos, size, timer_active, timer_remaining >>
     /\ pos' /= pos => (RepositionStep \/ DragStep)]_vars

\* C19 witness: the visible widget in Draggable mode, last pressed at a place
\* on the second screen a drag had taken it to, stands at the place its
\* placement settings give, on the first.
C19_Witness ==
  /\ visible /\ mode = "Draggable" /\ screenCount = 2
  /\ screen = ResolveScreen /\ pos = RepositionTarget(size)
  /\ screenNumber(pos) = 0
  /\ screenNumber(original_window_pos) = 1

====
